---- MODULE Spec2Model ----
(***************************************************************************)
(* Model of src/main.rs: a terminal dashboard over a JSON file of pets.    *)
(*                                                                         *)
(* Two threads: the foreground loop of main (draw a frame, receive one     *)
(* event, dispatch it) and the input poller accept_user_input, joined by   *)
(* an mpsc channel.  The pets file ./data/db.json is read and rewritten    *)
(* whole by every store operation.                                         *)
(*                                                                         *)
(* A Pet is modelled by its id and category; name, age and created_at are  *)
(* payload that no branch of the program reads.  Time is counted in units  *)
(* of 100 ms.  usize is modelled with UsizeBits bits.                      *)
(***************************************************************************)
EXTENDS Integers, Sequences, FiniteSets, TLC

\* ---------------------------------------------------------------- bounds
\* Largest number of pets the file holds in the model.
MaxPets == 3
\* Pet ids are drawn from 0 .. MaxId-1 (the code draws from 0 .. 9999998).
MaxId == 1
\* Largest number of events in flight on the (unbounded) channel.
MaxChan == 2
\* Width of usize in the model.
UsizeBits == 3

\* ------------------------------------------------------------- constants
\* Duration::from_millis(200), in units of 100 ms.
TickRate == 2
\* Option::None for pet_list_state.selected(); Some(i) is the number i.
None == -1

UsizeMax == 2^UsizeBits - 1

\* The key codes handle_user_input matches on; "other" is any other key.
KeyCode == {"q", "h", "p", "a", "d", "j", "k", "other"}
\* Event<KeyEvent>: Input(key) is the key code, Tick is "Tick".
Event == KeyCode \cup {"Tick"}
\* crossterm events read by the poller: a key, or an event that is no key.
TermEvent == KeyCode \cup {"resize"}

MenuItem == {"Home", "Pets"}

VARIABLES
    overflow_checks,   \* build profile: TRUE = debug (overflow panics), FALSE = release (wraps)
    db_status,         \* ./data/db.json: "ok", "unreadable" (ReadDBError) or "corrupt" (ParseDBError)
    db_pets,           \* the Vec<Pet> the file decodes to when db_status = "ok"
    active_menu_item,  \* AppState.active_menu_item
    selected,          \* AppState.pet_list_state.selected()
    main_pc,           \* position of main: "create_terminal", "draw", "recv", "exited"
    exit_cause,        \* how main ended: "running", "quit", "error", "panic"
    exit_at,           \* where main ended: "none", "create_terminal", "draw", "recv", "dispatch"
    raw_mode,          \* terminal in raw mode
    cursor_shown,      \* terminal cursor visible
    chan,              \* events sent and not received (never to be, once main has ended)
    poller_pc,         \* position of accept_user_input: "poll", "read", "tick", "panicked", "killed"
    elapsed,           \* last_tick.elapsed(), capped at TickRate
    since_send,        \* observer: time since the poller last sent an event (or started)
    last_event,        \* observer: the event dispatched last ("none" before the first)
    prev_event,        \* observer: the event dispatched before last_event
    pre_selected,      \* observer: selected before the last dispatch
    pre_len            \* observer: number of pets before the last dispatch (None: file not decodable)

appvars == <<db_status, db_pets, active_menu_item, selected>>
mainvars == <<main_pc, exit_cause, exit_at, raw_mode, cursor_shown>>
pollervars == <<poller_pc, elapsed, since_send>>
obsvars == <<last_event, prev_event, pre_selected, pre_len>>
vars == <<overflow_checks, appvars, mainvars, chan, pollervars, obsvars>>

\* ------------------------------------------------------- pure operators
Max(a, b) == IF a >= b THEN a ELSE b

\* rng.gen_range(low, high): the half-open range low .. high-1.
GenRange(low, high) == low .. (high - 1)

\* The match on rng.gen_range(0, 1) that picks the category.
Category(r) == IF r = 0 THEN "cats" ELSE "dogs"

\* The random_pet values add_random_pet_to_db can build.
RandomPets ==
    { [id |-> i, category |-> Category(r)] : i \in GenRange(0, MaxId), r \in GenRange(0, 1) }

\* Pets a db.json on disk may hold at startup.
FilePets == [id : GenRange(0, MaxId), category : {"cats", "dogs"}]

RECURSIVE SeqsUpTo(_, _)
SeqsUpTo(S, n) ==
    IF n = 0 THEN { <<>> }
    ELSE LET shorter == SeqsUpTo(S, n - 1)
         IN  shorter \cup { Append(s, x) : s \in { t \in shorter : Len(t) = n - 1 }, x \in S }

\* amount_pets - 1 on usize overflows exactly when amount_pets is 0: a panic under
\* overflow checks (debug profile), a wrap to usize::MAX without (release profile).
SubOneOverflows(n) == n = 0
WrappingSubOne(n) == IF n > 0 THEN n - 1 ELSE UsizeMax

\* Mutant of VecRemove: the pet is looked up by the id of the pet at `index`, and
\* the first pet with that id is removed.
VecRemoveById(v, index) ==
    LET first == CHOOSE k \in 1 .. Len(v) :
                    /\ v[k].id = v[index + 1].id
                    /\ \A m \in 1 .. (k - 1) : v[m].id # v[index + 1].id
    IN  SubSeq(v, 1, first - 1) \o SubSeq(v, first + 1, Len(v))

\* Vec::remove(index), index counted from 0; the caller checks index < len.
VecRemove(v, index) == SubSeq(v, 1, index) \o SubSeq(v, index + 2, Len(v))

\* What one call leaves behind: the dispatcher's answer ("Continue", "Stop" or
\* "Panic"), the application state and the file.
Outcome(resp, active, sel, status, pets) ==
    [resp |-> resp, active |-> active, selected |-> sel, status |-> status, pets |-> pets]

\* fs::write(DB_PATH, ..): it succeeds, or fails leaving the file as it was, or
\* fails after truncating it (no longer valid JSON).
WriteDb(new_pets, old_pets) ==
    { [ok |-> TRUE,  status |-> "ok",      pets |-> new_pets],
      [ok |-> FALSE, status |-> "ok",      pets |-> old_pets],
      [ok |-> FALSE, status |-> "corrupt", pets |-> <<>>] }

\* read_db / the read-and-parse prefix of the store operations: Ok or Err.
ReadDbOk(status) == status = "ok"

\* Mutant of AddRandomPetToDb: the new pet is put in front of the others.
AddRandomPetToDbInFront(status, pets) ==
    IF ~ReadDbOk(status)
    THEN { [res |-> "Err", status |-> status, pets |-> pets] }
    ELSE { [res |-> IF w.ok THEN "Ok" ELSE "Err", status |-> w.status, pets |-> w.pets] :
             w \in UNION { WriteDb(<<p>> \o pets, pets) : p \in RandomPets } }

\* add_random_pet_to_db: the set of results [res, status, pets].
AddRandomPetToDb(status, pets) ==
    IF ~ReadDbOk(status)
    THEN { [res |-> "Err", status |-> status, pets |-> pets] }
    ELSE { [res |-> IF w.ok THEN "Ok" ELSE "Err", status |-> w.status, pets |-> w.pets] :
             w \in UNION { WriteDb(Append(pets, p), pets) : p \in RandomPets } }

\* Mutant of SelectedAfterRemove: the selection is left where it was.
SelectedAfterRemoveStays(sel) == sel

\* The selection remove_pet_at_index leaves after removing at `sel`.
SelectedAfterRemove(sel) == IF sel > 0 THEN sel - 1 ELSE 0

\* remove_pet_at_index: the set of results [res, selected, status, pets];
\* res = "Panic" is Vec::remove's panic on an index out of bounds.
RemovePetAtIndex(sel, status, pets) ==
    IF sel = None
    THEN { [res |-> "Ok", selected |-> sel, status |-> status, pets |-> pets] }
    ELSE IF ~ReadDbOk(status)
    THEN { [res |-> "Err", selected |-> sel, status |-> status, pets |-> pets] }
    ELSE IF sel >= Len(pets)
    THEN { [res |-> "Panic", selected |-> sel, status |-> status, pets |-> pets] }
    ELSE { [res      |-> IF w.ok THEN "Ok" ELSE "Err",
            selected |-> IF w.ok THEN SelectedAfterRemove(sel) ELSE sel,
            status   |-> w.status,
            pets     |-> w.pets] : w \in WriteDb(VecRemove(pets, sel), pets) }

\* Result::expect: Ok goes on, Err (and a panic inside the call) panics.
Expect(res) == IF res = "Ok" THEN "Continue" ELSE "Panic"

\* Mutant of NextIndex: > in place of >=, so the last index does not wrap.
NextIndexOffByOne(sel, last) == IF sel > last THEN 0 ELSE sel + 1

\* The 'j' arm once amount_pets - 1 is known.
NextIndex(sel, last) == IF sel >= last THEN 0 ELSE sel + 1

\* Mutant of PrevIndex: index 0 stays at 0 instead of wrapping to the last index.
PrevIndexNoWrap(sel, amount) == IF sel > 0 THEN sel - 1 ELSE 0

\* The 'k' arm: amount_pets - 1 is evaluated only when selected = 0.
PrevIndexOverflows(sel, amount) == sel = 0 /\ SubOneOverflows(amount)
PrevIndex(sel, amount) == IF sel > 0 THEN sel - 1 ELSE WrappingSubOne(amount)

\* KeyCode::Char('j').
HandleNext(active, sel, status, pets, checks) ==
    IF sel = None THEN Outcome("Continue", active, sel, status, pets)
    ELSE IF ~ReadDbOk(status) THEN Outcome("Panic", active, sel, status, pets)
    ELSE IF SubOneOverflows(Len(pets)) /\ checks THEN Outcome("Panic", active, sel, status, pets)
    ELSE Outcome("Continue", active, NextIndex(sel, WrappingSubOne(Len(pets))), status, pets)

\* KeyCode::Char('k').
HandlePrev(active, sel, status, pets, checks) ==
    IF sel = None THEN Outcome("Continue", active, sel, status, pets)
    ELSE IF ~ReadDbOk(status) THEN Outcome("Panic", active, sel, status, pets)
    ELSE IF PrevIndexOverflows(sel, Len(pets)) /\ checks
    THEN Outcome("Panic", active, sel, status, pets)
    ELSE Outcome("Continue", active, PrevIndex(sel, Len(pets)), status, pets)

\* KeyCode::Char('a').
HandleAdd(active, sel, status, pets) ==
    { Outcome(Expect(r.res), active, sel, r.status, r.pets) : r \in AddRandomPetToDb(status, pets) }

\* KeyCode::Char('d').
HandleDelete(active, sel, status, pets) ==
    { Outcome(Expect(r.res), active, r.selected, r.status, r.pets) :
        r \in RemovePetAtIndex(sel, status, pets) }

\* Mutant of HandleQuit: the arm falls through to Continue instead of returning Stop.
HandleQuitContinues(active, sel, status, pets) == Outcome("Continue", active, sel, status, pets)

\* KeyCode::Char('q').
HandleQuit(active, sel, status, pets) == Outcome("Stop", active, sel, status, pets)

\* Mutant of HandlePets: the arm assigns MenuItem::Home, as the arm above it does.
HandlePetsSetsHome(active, sel, status, pets) == Outcome("Continue", "Home", sel, status, pets)

\* KeyCode::Char('h') and KeyCode::Char('p').
HandleHome(active, sel, status, pets) == Outcome("Continue", "Home", sel, status, pets)
HandlePets(active, sel, status, pets) == Outcome("Continue", "Pets", sel, status, pets)

\* Mutant of HandleTick: a Tick falls into the match and moves the selection to 0.
HandleTickSelectsFirst(active, sel, status, pets) == Outcome("Continue", active, 0, status, pets)

\* The let-else on rx.recv(): anything but Event::Input returns Continue at once.
HandleTick(active, sel, status, pets) == Outcome("Continue", active, sel, status, pets)

\* The match on event.code in handle_user_input: the set of outcomes of one event.
Dispatch(ev, active, sel, status, pets, checks) ==
    CASE ev = "Tick"  -> { HandleTick(active, sel, status, pets) }
      [] ev = "q"     -> { HandleQuit(active, sel, status, pets) }
      [] ev = "h"     -> { HandleHome(active, sel, status, pets) }
      [] ev = "p"     -> { HandlePets(active, sel, status, pets) }
      [] ev = "a"     -> HandleAdd(active, sel, status, pets)
      [] ev = "d"     -> HandleDelete(active, sel, status, pets)
      [] ev = "j"     -> { HandleNext(active, sel, status, pets, checks) }
      [] ev = "k"     -> { HandlePrev(active, sel, status, pets, checks) }
      [] OTHER        -> { Outcome("Continue", active, sel, status, pets) }

\* create_pet_widgets: read_db().expect, selected().expect, get(..).expect("exists").
CreatePetWidgetsPanics(sel, status, pets) ==
    \/ ~ReadDbOk(status)
    \/ sel = None
    \/ sel >= Len(pets)

\* render_selected_widget: the Home arm draws a paragraph, the Pets arm the pet widgets.
RenderPanics(active, sel, status, pets) ==
    active = "Pets" /\ CreatePetWidgetsPanics(sel, status, pets)

\* Mutant of SelectedAfterRender: drawing the list puts the selection on its first row.
SelectedAfterRenderFirstRow(active, sel) == IF active = "Pets" THEN 0 ELSE sel

\* The selection after a frame is drawn: draw hands pet_list_state on as &mut, the
\* Home arm does not touch it and the Pets arm gives it to render_stateful_widget,
\* which draws the row highlighted and leaves the selection as it is.
SelectedAfterRender(active, sel) == sel

\* ------------------------------------------------------------------ Init
\* main up to the spawn of the poller: raw mode is on, the channel is empty, the
\* poller is about to poll, AppState::default() selects Some(0) on the Home view.
\* The file on disk is whatever it is: missing, not JSON, or any list of pets.
Init ==
    /\ overflow_checks \in BOOLEAN
    /\ db_status \in {"ok", "unreadable", "corrupt"}
    /\ db_pets \in (IF db_status = "ok" THEN SeqsUpTo(FilePets, MaxPets) ELSE { <<>> })
    /\ active_menu_item = "Home"
    /\ selected = 0
    /\ main_pc = "create_terminal"
    /\ exit_cause = "running"
    /\ exit_at = "none"
    /\ raw_mode = TRUE
    /\ cursor_shown = TRUE
    /\ chan = <<>>
    /\ poller_pc = "poll"
    /\ elapsed = 0
    /\ since_send = 0
    /\ last_event = "none"
    /\ prev_event = "none"
    /\ pre_selected = 0
    /\ pre_len = 0

\* ------------------------------------------------------ foreground loop
\* main returns Err through `?` or unwinds from a panic: nothing disables raw mode;
\* whether the cursor comes back is up to the terminal backend's destructor.
AbnormalExit(cause, at) ==
    /\ main_pc' = "exited"
    /\ exit_cause' = cause
    /\ exit_at' = at
    /\ raw_mode' = raw_mode
    /\ cursor_shown' \in BOOLEAN

\* create_terminal()?
CreateTerminal ==
    /\ main_pc = "create_terminal"
    /\ \E io_ok \in BOOLEAN :
         IF io_ok
         THEN /\ main_pc' = "draw"
              /\ UNCHANGED <<exit_cause, exit_at, raw_mode, cursor_shown, chan>>
         ELSE AbnormalExit("error", "create_terminal") /\ chan' = chan
    /\ UNCHANGED <<overflow_checks, appvars, pollervars, obsvars>>

\* terminal.draw(|rect| draw(..))?
Draw ==
    /\ main_pc = "draw"
    /\ \E io_ok \in BOOLEAN :
         IF ~io_ok
         THEN AbnormalExit("error", "draw") /\ UNCHANGED <<chan, selected>>
         ELSE IF RenderPanics(active_menu_item, selected, db_status, db_pets)
         THEN AbnormalExit("panic", "draw") /\ UNCHANGED <<chan, selected>>
         ELSE /\ main_pc' = "recv"
              /\ cursor_shown' = FALSE
              /\ selected' = SelectedAfterRender(active_menu_item, selected)
              /\ UNCHANGED <<exit_cause, exit_at, raw_mode, chan>>
    /\ UNCHANGED <<overflow_checks, db_status, db_pets, active_menu_item,
                   pollervars, obsvars>>

\* rx.recv()? on an empty channel whose sender is gone.
RecvDisconnected ==
    /\ main_pc = "recv"
    /\ chan = <<>>
    /\ poller_pc = "panicked"
    /\ AbnormalExit("error", "recv")
    /\ chan' = chan
    /\ UNCHANGED <<overflow_checks, appvars, pollervars, obsvars>>

\* handle_user_input on the event at the head of the channel, and main's test of
\* its answer: Continue loops to the next frame, Stop breaks (the 'q' arm has put
\* the terminal back: disable_raw_mode, show_cursor), a panic unwinds main.  Appending to a file of MaxPets pets is outside the model.
HandleUserInputStep ==
    /\ main_pc = "recv"
    /\ chan # <<>>
    /\ ~(Head(chan) = "a" /\ db_status = "ok" /\ Len(db_pets) >= MaxPets)
    /\ \E o \in Dispatch(Head(chan), active_menu_item, selected, db_status, db_pets,
                          overflow_checks) :
         /\ active_menu_item' = o.active
         /\ selected' = o.selected
         /\ db_status' = o.status
         /\ db_pets' = o.pets
         /\ chan' = Tail(chan)
         /\ CASE o.resp = "Continue" ->
                   /\ main_pc' = "draw"
                   /\ UNCHANGED <<exit_cause, exit_at, raw_mode, cursor_shown>>
              [] o.resp = "Stop" ->
                   /\ main_pc' = "exited"
                   /\ exit_cause' = "quit"
                   /\ exit_at' = "dispatch"
                   /\ raw_mode' = FALSE
                   /\ cursor_shown' = TRUE
              [] o.resp = "Panic" -> AbnormalExit("panic", "dispatch")
    /\ UNCHANGED <<overflow_checks, pollervars>>

HandleUserInput ==
    /\ HandleUserInputStep
    /\ UNCHANGED obsvars

\* ---------------------------------------------------------- input poller
RxAlive == main_pc # "exited"

\* Mutant of Timeout: every poll waits a whole tick_rate, whatever has elapsed.
TimeoutWholeTick(e) == TickRate

\* tick_rate.checked_sub(last_tick.elapsed()).unwrap_or(0)
Timeout(e) == IF TickRate >= e THEN TickRate - e ELSE 0

\* Mutant of TickDue: the Tick is sent on every turn of the loop.
TickDueAlways(e) == TRUE

\* last_tick.elapsed() >= tick_rate
TickDue(e) == e >= TickRate

\* Mutant of PollerJoined: main joins the poller thread before it returns.
PollerJoinedBeforeReturn == TRUE

\* thread::spawn's JoinHandle is dropped at once: nothing waits for the poller, and
\* the process ends when main has returned or unwound.
PollerJoined == FALSE

PollerRuns == poller_pc \in {"poll", "read", "tick"}

\* event::poll(timeout) returns true: an event turned up after d <= timeout.
PollInput ==
    /\ poller_pc = "poll"
    /\ \E d \in 0 .. Timeout(elapsed) :
         /\ elapsed' = elapsed + d
         /\ since_send' = since_send + d
    /\ poller_pc' = "read"
    /\ UNCHANGED <<overflow_checks, appvars, mainvars, chan, obsvars>>

\* event::poll(timeout) returns false: the whole timeout went by.
PollTimeout ==
    /\ poller_pc = "poll"
    /\ elapsed' = elapsed + Timeout(elapsed)
    /\ since_send' = since_send + Timeout(elapsed)
    /\ poller_pc' = "tick"
    /\ UNCHANGED <<overflow_checks, appvars, mainvars, chan, obsvars>>

\* event::poll(..).expect("poll works") on an Err: the thread panics, tx is dropped.
PollFails ==
    /\ poller_pc = "poll"
    /\ poller_pc' = "panicked"
    /\ UNCHANGED <<overflow_checks, appvars, mainvars, chan, elapsed, since_send, obsvars>>

\* event::read().expect("can read events") on an Err: the thread panics, tx is dropped.
ReadFails ==
    /\ poller_pc = "read"
    /\ poller_pc' = "panicked"
    /\ UNCHANGED <<overflow_checks, appvars, mainvars, chan, elapsed, since_send, obsvars>>

\* event::read() and, for a key, tx.send(Event::Input(key)).expect(..): sending to
\* a dropped receiver panics the thread.  Sending to a queue of MaxChan events is
\* outside the model.
ReadEvent ==
    /\ poller_pc = "read"
    /\ \E e \in TermEvent :
         IF e \in KeyCode
         THEN IF RxAlive
              THEN /\ Len(chan) < MaxChan
                   /\ chan' = Append(chan, e)
                   /\ since_send' = 0
                   /\ poller_pc' = "tick"
              ELSE /\ UNCHANGED <<chan, since_send>>
                   /\ poller_pc' = "panicked"
         ELSE /\ UNCHANGED <<chan, since_send>>
              /\ poller_pc' = "tick"
    /\ UNCHANGED <<overflow_checks, appvars, mainvars, elapsed, obsvars>>

\* if last_tick.elapsed() >= tick_rate && tx.send(Event::Tick).is_ok() { last_tick = now }
TickCheck ==
    /\ poller_pc = "tick"
    /\ IF TickDue(elapsed) /\ RxAlive
       THEN /\ Len(chan) < MaxChan
            /\ chan' = Append(chan, "Tick")
            /\ elapsed' = 0
            /\ since_send' = 0
       ELSE UNCHANGED <<chan, elapsed, since_send>>
    /\ poller_pc' = "poll"
    /\ UNCHANGED <<overflow_checks, appvars, mainvars, obsvars>>

\* Time goes by between two statements of the poller.
Delay ==
    /\ PollerRuns
    /\ elapsed < TickRate
    /\ elapsed' = elapsed + 1
    /\ since_send' = since_send + 1
    /\ UNCHANGED <<overflow_checks, appvars, mainvars, chan, poller_pc, obsvars>>

\* main has returned or unwound: the process ends, and the poller thread with it.
ProcessExit ==
    /\ main_pc = "exited"
    /\ ~PollerJoined
    /\ PollerRuns
    /\ poller_pc' = "killed"
    /\ UNCHANGED <<overflow_checks, appvars, mainvars, chan, elapsed, since_send, obsvars>>

Next ==
    \/ CreateTerminal
    \/ Draw
    \/ RecvDisconnected
    \/ HandleUserInput
    \/ PollInput
    \/ PollTimeout
    \/ PollFails
    \/ ReadFails
    \/ ReadEvent
    \/ TickCheck
    \/ Delay
    \/ ProcessExit

Spec == Init /\ [][Next]_vars

\* The process does end once main has: the runtime's exit waits for nothing.
FairSpec == Spec /\ WF_vars(ProcessExit)

\* ------------------------------------------- the foreground loop observed
\* The foreground loop on its own, fed any stream of events, with the observer
\* variables recording the event dispatched and the state it was dispatched in.
PreLen == IF db_status = "ok" THEN Len(db_pets) ELSE None

HandleUserInputObserved ==
    /\ HandleUserInputStep
    /\ last_event' = Head(chan)
    /\ prev_event' = last_event
    /\ pre_selected' = selected
    /\ pre_len' = PreLen

\* The poller's sends, seen from the receiver: some event arrives while main
\* waits in rx.recv().
FeedEvent ==
    /\ main_pc = "recv"
    /\ poller_pc = "poll"
    /\ chan = <<>>
    /\ \E e \in Event : chan' = <<e>>
    /\ UNCHANGED <<overflow_checks, appvars, mainvars, pollervars, obsvars>>

DispatchNext ==
    \/ CreateTerminal
    \/ Draw
    \/ RecvDisconnected
    \/ HandleUserInputObserved
    \/ FeedEvent
    \/ PollFails

DispatchSpec == Init /\ [][DispatchNext]_vars

\* ---------------------------------------------------------------- claims
\* This step is main dispatching event `ev`: it leaves rx.recv() with `ev` at the
\* head of the channel.
Dispatched(ev) ==
    /\ main_pc = "recv"
    /\ chan # <<>>
    /\ Head(chan) = ev
    /\ main_pc' # "recv"

\* The file decodes to pets.
Readable == db_status = "ok"
EmptyStore == Readable /\ db_pets = <<>>
\* The selection is a position of a non-empty list of pets.
ValidSelection == Readable /\ db_pets # <<>> /\ selected \in 0 .. (Len(db_pets) - 1)
\* The dispatcher answered Continue: main goes on to draw the next frame.
Continues == main_pc' = "draw"

\* C1: on an empty list of pets with a selection, dispatching next, prev or delete
\* is a no-op: the dispatcher answers Continue and neither the selection nor the
\* file changes (no panic, no underflow of length - 1, no removal out of bounds).
C1_EmptyStoreNoOp ==
    [][ ((Dispatched("j") \/ Dispatched("k") \/ Dispatched("d"))
            /\ EmptyStore /\ selected # None)
        => (Continues /\ UNCHANGED <<db_status, db_pets, active_menu_item, selected>>) ]_vars

\* C2: a frame of the Pets view over an empty list of pets is drawn without a
\* panic, whatever the selection: main never ends by a panic in draw there.
C2_DrawToleratesEmptyStore ==
    (active_menu_item = "Pets" /\ EmptyStore)
        => ~(main_pc = "exited" /\ exit_cause = "panic" /\ exit_at = "draw")

\* C3: when the file cannot be read or decoded while add or delete is dispatched,
\* the dispatcher answers Continue and view, selection and file are unchanged.
C3_StoreErrorDoesNotStopLoop ==
    [][ ((Dispatched("a") \/ Dispatched("d")) /\ ~Readable /\ selected # None)
        => (Continues /\ UNCHANGED <<db_status, db_pets, active_menu_item, selected>>) ]_vars

\* C4: whenever main has ended, by whatever path, raw mode is off and the cursor
\* is visible.
C4_TerminalRestoredOnExit ==
    main_pc = "exited" => (~raw_mode /\ cursor_shown)

\* C5: with n >= 1 pets and the selection at i < n, next selects 0 when i = n-1
\* and i+1 otherwise, prev selects n-1 when i = 0 and i-1 otherwise; neither
\* changes the file or the view, and the dispatcher answers Continue.
C5_NextPrevStep ==
    [][ /\ (Dispatched("j") /\ ValidSelection)
            => /\ selected' = (IF selected = Len(db_pets) - 1 THEN 0 ELSE selected + 1)
               /\ Continues
               /\ UNCHANGED <<db_status, db_pets, active_menu_item>>
        /\ (Dispatched("k") /\ ValidSelection)
            => /\ selected' = (IF selected = 0 THEN Len(db_pets) - 1 ELSE selected - 1)
               /\ Continues
               /\ UNCHANGED <<db_status, db_pets, active_menu_item>> ]_vars

\* C5 witness: three pets, next was pressed twice from an index below 2 and then
\* once more at index 2, which wrapped the selection to 0.
C5_Witness ==
    /\ last_event = "j" /\ prev_event = "j"
    /\ pre_len = 3 /\ pre_selected = 2
    /\ Readable /\ Len(db_pets) = 3 /\ selected = 0
    /\ main_pc = "draw"

\* The list of pets is as it was before the last dispatch, and the selection
\* before that dispatch was one of its positions.
LastFromValid ==
    /\ Readable /\ pre_len = Len(db_pets)
    /\ pre_len > 0 /\ pre_selected \in 0 .. (pre_len - 1)

\* C6: on a non-empty list, from any position of it, next followed by prev and
\* prev followed by next bring the selection back to where it was.
C6_NextPrevInverse ==
    [][ /\ (Dispatched("k") /\ last_event = "j" /\ LastFromValid) => selected' = pre_selected
        /\ (Dispatched("j") /\ last_event = "k" /\ LastFromValid) => selected' = pre_selected ]_vars

\* C6 witness: three pets, next at index 2 wrapped to 0 and prev brought it back.
C6_Witness ==
    /\ prev_event = "j" /\ last_event = "k"
    /\ pre_len = 3 /\ pre_selected = 0
    /\ Readable /\ Len(db_pets) = 3 /\ selected = 2
    /\ main_pc = "draw"

\* C7: delete with the selection at position i of a non-empty list, when the file
\* is written, leaves one pet fewer, the selection at max(i-1, 0) and the view as
\* it was; deleting the only pet leaves no pet and the selection at 0.
C7_DeleteMovesSelection ==
    [][ (Dispatched("d") /\ ValidSelection /\ Continues)
        => /\ db_status' = "ok"
           /\ Len(db_pets') = Len(db_pets) - 1
           /\ selected' = Max(selected - 1, 0)
           /\ active_menu_item' = active_menu_item ]_vars

\* C7 witness: the only pet was deleted; no pet is left and the selection is 0.
C7_Witness ==
    /\ last_event = "d"
    /\ pre_len = 1 /\ pre_selected = 0
    /\ EmptyStore /\ selected = 0
    /\ main_pc = "draw"

\* C8: removing at position i of n pets persists exactly the n-1 others, in their
\* order: the pets before i keep their places, the pets after i move up by one.
\* The pet taken out is the one at that place, whatever its id.
C8_RemoveAtPosition ==
    [][ (Dispatched("d") /\ ValidSelection /\ Continues)
        => /\ db_status' = "ok"
           /\ Len(db_pets') = Len(db_pets) - 1
           /\ \A k \in 1 .. Len(db_pets') :
                 db_pets'[k] = (IF k <= selected THEN db_pets[k] ELSE db_pets[k + 1]) ]_vars

\* C8 witness: the second of three pets was removed from a list whose first pet
\* has the same id as the second, and the first pet is still in its place.
C8_Witness ==
    /\ last_event = "d"
    /\ pre_len = 3 /\ pre_selected = 1
    /\ Readable /\ Len(db_pets) = 2
    /\ db_pets[1].category # db_pets[2].category
    /\ main_pc = "draw"

\* C9: add on a readable file of n pets, when the file is written, persists the n
\* pets followed by one new pet whose category is "cats" or "dogs"; selection and
\* view are unchanged.
C9_AddAppendsOne ==
    [][ (Dispatched("a") /\ Readable /\ Continues)
        => /\ db_status' = "ok"
           /\ Len(db_pets') = Len(db_pets) + 1
           /\ SubSeq(db_pets', 1, Len(db_pets)) = db_pets
           /\ db_pets'[Len(db_pets')].category \in {"cats", "dogs"}
           /\ selected' = selected
           /\ active_menu_item' = active_menu_item ]_vars

\* C9 witness: add was pressed on an empty file, which now holds one pet.
C9_Witness ==
    /\ last_event = "a"
    /\ pre_len = 0
    /\ Readable /\ Len(db_pets) = 1
    /\ db_pets[1].category \in {"cats", "dogs"}
    /\ selected = pre_selected
    /\ main_pc = "draw"

C11_ViewKeys ==
    [][ /\ Dispatched("h")
            => (active_menu_item' = "Home" /\ Continues
                /\ UNCHANGED <<db_status, db_pets, selected>>)
        /\ Dispatched("p")
            => (active_menu_item' = "Pets" /\ Continues
                /\ UNCHANGED <<db_status, db_pets, selected>>)
        /\ Dispatched("other")
            => (Continues /\ UNCHANGED <<db_status, db_pets, active_menu_item, selected>>) ]_vars

\* C11 witness: 'p' was pressed twice in a row, the second time with the Pets view
\* already showing, and the view is Pets with the selection where it was.
C11_Witness ==
    /\ prev_event = "p" /\ last_event = "p"
    /\ active_menu_item = "Pets"
    /\ selected = pre_selected
    /\ main_pc = "draw"

\* C12: dispatching a Tick changes neither the view, the selection nor the file,
\* and the dispatcher answers Continue, so main draws the next frame.
C12_TickChangesNothing ==
    [][ Dispatched("Tick")
        => (Continues /\ UNCHANGED <<db_status, db_pets, active_menu_item, selected>>) ]_vars

\* C12 witness: a Tick was dispatched on the Pets view with the selection at 1, and
\* the frame after it has been drawn.
C12_Witness ==
    /\ last_event = "Tick"
    /\ active_menu_item = "Pets" /\ selected = 1 /\ pre_selected = 1
    /\ main_pc = "recv"

\* C13: while the poller runs and the receiver is alive, no more than one tick
\* interval goes by without the poller sending an event, whatever the terminal
\* delivers (nothing, keys, or events that are no keys).
C13_EventEveryTick ==
    (PollerRuns /\ RxAlive) => since_send <= TickRate

\* C13 witness: a key was sent, then nothing but the rest of the interval went by,
\* and the Tick has just been sent behind the key.
C13_Witness ==
    /\ PollerRuns /\ RxAlive
    /\ Len(chan) = 2 /\ chan[1] \in KeyCode /\ chan[2] = "Tick"
    /\ since_send = 0 /\ elapsed = 0

\* This step is the poller sending a Tick.
TickSent == poller_pc = "tick" /\ chan' = Append(chan, "Tick")

\* C14: a Tick is sent only when a whole interval has gone by since the last one,
\* and starts the next interval (never two for one interval); at the tick check
\* after a whole interval the Tick is sent (never none); and the channel is first
\* in, first out, so main receives the Tick before any key sent after it.
C14_OneTickPerInterval ==
    [][ /\ TickSent => (elapsed >= TickRate /\ elapsed' = 0)
        /\ (poller_pc = "tick" /\ poller_pc' = "poll" /\ elapsed >= TickRate /\ RxAlive)
              => TickSent
        /\ (PollerRuns /\ RxAlive) => elapsed' <= TickRate
        /\ \/ chan' = chan
           \/ chan # <<>> /\ chan' = Tail(chan) /\ main_pc = "recv"
           \/ \E e \in Event : chan' = Append(chan, e) ]_vars

\* C14 witness: the Tick of an interval is queued, a key pressed later is queued
\* behind it, and main is about to receive.
C14_Witness ==
    /\ Len(chan) = 2 /\ chan[1] = "Tick" /\ chan[2] \in KeyCode
    /\ main_pc = "recv"
    /\ PollerRuns

\* C15: once main has ended and dropped the receiver, the poller stops: it panics
\* on its next key send or goes with the process.
C15_PollerStopsAfterClose ==
    (main_pc = "exited") ~> ~PollerRuns

\* C15 witness: main has ended while the poller was running, a Tick send has since
\* failed without stopping the poller, and the poller has gone with the process.
C15_Witness ==
    /\ main_pc = "exited"
    /\ poller_pc = "killed"
    /\ elapsed >= TickRate

\* C16: drawing a frame, whether it succeeds, fails or panics, leaves the view, the
\* selection and the file as they are; and the file changes in no step but the
\* dispatch of 'a' or 'd', so two reads with none of these between see equal lists.
C16_RenderReadOnly ==
    [][ /\ main_pc = "draw" => UNCHANGED <<db_status, db_pets, active_menu_item, selected>>
        /\ ~(Dispatched("a") \/ Dispatched("d")) => UNCHANGED <<db_status, db_pets>> ]_vars

\* C16 witness: two frames of the Pets view over a list of two pets were drawn with
\* only a Tick between them, the second pet selected at both.
C16_Witness ==
    /\ prev_event = "Tick" /\ last_event = "Tick"
    /\ active_menu_item = "Pets"
    /\ Readable /\ Len(db_pets) = 2
    /\ pre_selected = 1 /\ selected = 1
    /\ main_pc = "recv"

\* C17: while main runs, whenever the file holds a non-empty list the selection is
\* one of its positions, so the detail pane's lookup finds a pet.
C17_CursorValidWhenNonEmpty ==
    (main_pc # "exited" /\ Readable /\ db_pets # <<>>)
        => selected \in 0 .. (Len(db_pets) - 1)

\* C18: the events sent and not yet received stay below the largest queue the
\* model lets the poller build, however slowly main receives.
C18_ChannelBounded ==
    Len(chan) < MaxChan

\* C19: whenever 'a' is about to be dispatched over a readable file, each of "cats"
\* and "dogs" is the category of the pet appended in some outcome of the add.
C19_AddPicksEitherCategory ==
    (main_pc = "recv" /\ chan # <<>> /\ Head(chan) = "a" /\ Readable)
        => \A c \in {"cats", "dogs"} :
             \E o \in Dispatch("a", active_menu_item, selected, db_status, db_pets,
                                overflow_checks) :
                 /\ o.resp = "Continue"
                 /\ o.status = "ok"
                 /\ Len(o.pets) = Len(db_pets) + 1
                 /\ o.pets[Len(o.pets)].category = c

====
